---- MODULE Spec2Model ----
(***************************************************************************)
(* Email visual tester: the rendering-job coordinator.                     *)
(*                                                                         *)
(* globalSetup (src/global-setup.ts) obtains a test id, calls              *)
(* EmailOnAcidService.getPreviewUrls (the polling loop) and writes the     *)
(* preview list and its archive copy.  Every action below is one           *)
(* continuation of the JavaScript code between two suspension points       *)
(* (the awaited HTTP calls and the awaited sleep).                         *)
(***************************************************************************)
EXTENDS Integers, FiniteSets, Sequences, TLC

\* ------------------------------------------------------------------ bounds
\* Largest attempt budget (EOA_MAX_ATTEMPTS) explored.  It lies above both
\* floors of checkIfShouldExit so that each floor is crossed.
MaxAttempts == 16

\* The attempt budgets explored: none, one, and the largest.
AttemptBudgets == {0, 1, MaxAttempts}

\* ------------------------------------------------------- program constants
WaitFloor == 10        \* waitedLongEnough = attempt >= 10
ScreenshotFloor == 15  \* triedEnoughForScreenshots = attempt >= 15
AuthStatus == 401      \* the HTTP status fetchResults treats as fatal

\* ------------------------------------------------------------ value domains
\* Client identifiers known to the remote service.
Clients == {"gmail_web", "outlook", "iphone"}

\* The clients rendered by a remote test that covers only some of them.
FewClients == {"gmail_web", "outlook"}

\* Another remote test that renders two clients.
PairClients == {"gmail_web", "iphone"}

\* The lists of requested clients read from default-clients-eoa.json that are
\* explored for a new test rendering the clients K: against a test that
\* renders every client, two clients (the third is reported unrequested) or
\* all of them; against a test that renders two clients, no client (the
\* loop falls back to the clients reported) or all of them (one never
\* appears); against the other test that renders two clients, these two.
CreateRequests(K) ==
  IF K = Clients THEN {FewClients, Clients}
  ELSE IF K = FewClients THEN {{}, Clients}
  ELSE {K}

\* The same for a reused test, which an earlier run created: it renders a
\* client beyond the two now requested, or two clients only.
ExistingRequests(K) ==
  IF K = Clients THEN {FewClients}
  ELSE IF K = FewClients THEN {{}, Clients}
  ELSE {K}

\* Screenshot locations.
Urls == {"u1", "u2"}

\* client.screenshots?.default when it is missing, empty or not a string.
NoUrl == "nourl"

\* capturedUrls[clientId] = '' marks a failed or bounced client.
FailedMark == ""

\* Status values of one client in a poll response.
Statuses == {"Processing", "Complete", "Failed", "Bounced"}

\* One client's entry of a poll response.  Only the handler of a Complete
\* client reads screenshots.default.
Entries ==
  [status : {"Processing", "Failed", "Bounced"}, url : {NoUrl}]
    \cup [status : {"Complete"}, url : Urls \cup {NoUrl}]

\* The entries explored for each client.  The handlers treat every client
\* alike, so the second URL and the Bounced status are explored on one
\* client only; every client can be absent, pending, complete and failed.
EntriesOf(c) ==
  CASE c = "gmail_web" -> Entries
    [] c = "outlook" ->
         {e \in Entries : e.status # "Bounced" /\ e.url # "u2"}
    [] OTHER ->
         {e \in Entries : e.status # "Bounced" /\ e.url \in {"u1", NoUrl}
                            /\ ~(e.status = "Complete" /\ e.url = NoUrl)}

\* response.data of GET /results: a mapping clientId -> entry over some of
\* the clients K that the remote test renders.
Snapshots(K) ==
  UNION {{s \in [D -> Entries] : \A c \in D : s[c] \in EntriesOf(c)} :
           D \in SUBSET K}

\* The empty mapping {}.
EmptyMap == [x \in {} |-> x]

\* fetchResults returned null (soft failure).
Null == [kind |-> "null", body |-> EmptyMap]

\* No poll result is held (outside an iteration of the loop).
Unset == [kind |-> "unset", body |-> EmptyMap]

\* fetchResults returned the mapping s.
Data(s) == [kind |-> "data", body |-> s]

\* HTTP error statuses of a poll response.
HttpStatuses == {401, 403, 404, 500}

\* fetchResults threw 'Authentication failed'.
Throw == [kind |-> "throw", body |-> EmptyMap]

\* No GET /results has been answered yet.
NoResponse == [kind |-> "none", status |-> 0]

\* The outcome of a GET /results without its body.
Outcome(resp) ==
  [kind |-> resp.kind,
   status |-> IF resp.kind = "http" THEN resp.status
              ELSE IF resp.kind \in {"data", "nodata"} THEN 200 ELSE 0]

\* Outcomes of the awaited axios.get of fetchResults: a 2xx response with a
\* body, a 2xx response with a falsy body, an HTTP error status, an axios
\* error without response, and an error that is not an axios error.
Responses(K) ==
  [kind : {"data"}, body : Snapshots(K)]
    \cup {[kind |-> "nodata"], [kind |-> "network"], [kind |-> "other"]}
    \cup [kind : {"http"}, status : HttpStatuses]

\* --------------------------------------------------------------- variables
VARIABLES
  san,           \* the sanitizer under test: its input and its outputs
  tests,         \* the blueprint spec: the previews it loaded and compared
  history,       \* observer: the clients the snapshots have reported so far
  env,           \* environment variables and files found by globalSetup
  pc,            \* position of the run
  rendered,      \* the clients the remote test renders (may report on)
  requested,     \* desiredApiClients / emailClients
  testId,        \* the test id polled
  maxAttempts,   \* Number(process.env.EOA_MAX_ATTEMPTS || 60)
  attempt,       \* loop counter of getPreviewUrls
  capturedUrls,  \* Record<string, string> of getPreviewUrls
  response,      \* outcome of the GET /results of the current iteration
  results,       \* value returned by fetchResults in the current iteration
  stop,          \* why the loop ended: "none", "rule", "budget", "auth"
  fetchCalls,    \* number of GET /results calls made
  sleeps,        \* number of setTimeout sleeps performed
  ruleChecks,    \* number of checkIfShouldExit evaluations
  submitCalls,   \* number of POST /tests calls made
  submitOutcome, \* outcome of the POST /tests: "none" before it
  previewUrlsMap,\* value returned by getPreviewUrls
  report,        \* what buildFinalResults printed
  file,          \* content of generated-preview-urls-<task>.json
  archives,      \* contents of the archive files, oldest first
  error          \* message class of the error that failed the run

vars == <<san, tests, history, env, pc, rendered, requested, testId, maxAttempts, attempt,
          capturedUrls, response, results, stop, fetchCalls, sleeps,
          ruleChecks, submitCalls, submitOutcome, previewUrlsMap, report,
          file, archives, error>>

\* ------------------------------------------------- Record<string, string>
\* !capturedUrls[id]: the key is missing or holds the empty string.
Truthy(m, id) == id \in DOMAIN m /\ m[id] # FailedMark

\* m[id] = v
Put(m, id, v) == [x \in DOMAIN m \cup {id} |-> IF x = id THEN v ELSE m[x]]


\* --------------------------------------------------- EmailOnAcidService
\* handleCompleteClient without the test of capturedUrls[clientId]: the
\* latest URL replaces the one captured before.
HandleCompleteClientOverwrites(clientId, client, captured) ==
  IF client.url # NoUrl
    THEN Put(captured, clientId, client.url)
    ELSE captured

\* handleCompleteClient: capture the screenshot URL of a Complete client.
HandleCompleteClient(clientId, client, captured) ==
  IF client.url # NoUrl
    THEN IF ~Truthy(captured, clientId)
           THEN Put(captured, clientId, client.url)
           ELSE captured
    ELSE captured

\* handleFailedClient that forgets a failure it sees again, so that the
\* client is tried anew.
HandleFailedClientForgets(clientId, status, captured) ==
  IF clientId \notin DOMAIN captured
    THEN Put(captured, clientId, FailedMark)
    ELSE IF captured[clientId] = FailedMark
           THEN [x \in DOMAIN captured \ {clientId} |-> captured[x]]
           ELSE captured

\* handleFailedClient: mark a Failed or Bounced client with ''.
HandleFailedClient(clientId, status, captured) ==
  IF ~Truthy(captured, clientId)
    THEN Put(captured, clientId, FailedMark)
    ELSE captured

\* The clients to check taken from the snapshot even when clients are
\* requested.
ClientsToCheckAll(res, requestedClients) == DOMAIN res

\* requestedClients.length > 0 ? requestedClients : Object.keys(results)
ClientsToCheck(res, requestedClients) ==
  IF requestedClients # {} THEN requestedClients ELSE DOMAIN res

\* The body of the loop of processClientResults for one client.
ProcessClient(res, clientId, captured) ==
  IF clientId \notin DOMAIN res
    THEN captured
    ELSE CASE res[clientId].status = "Complete" ->
                HandleCompleteClient(clientId, res[clientId], captured)
           [] res[clientId].status \in {"Failed", "Bounced"} ->
                HandleFailedClient(clientId, res[clientId].status, captured)
           [] OTHER -> captured

\* The loop of processClientResults over the clients still to visit.
RECURSIVE ProcessLoop(_, _, _)
ProcessLoop(res, toVisit, captured) ==
  IF toVisit = {}
    THEN captured
    ELSE LET clientId == CHOOSE c \in toVisit : TRUE
         IN  ProcessLoop(res, toVisit \ {clientId},
                         ProcessClient(res, clientId, captured))

\* processClientResults: the captured URLs after one poll response.
ProcessClientResults(res, requestedClients, captured) ==
  ProcessLoop(res, ClientsToCheck(res, requestedClients), captured)

\* processClientResults: the clientsFound it returns.
ClientsFound(res, requestedClients) ==
  {id \in ClientsToCheck(res, requestedClients) : id \in DOMAIN res}

\* checkIfShouldExit with allFinished true as soon as one appeared client
\* is finished (some for every).
CheckIfShouldExitSomeFinished(requestedClients, res, captured, n) ==
  LET clientsToCheck == ClientsToCheck(res, requestedClients)
      appearedClients == {id \in clientsToCheck : id \in DOMAIN res}
      finishedClients ==
        {id \in appearedClients :
           res[id].status \in {"Complete", "Failed", "Bounced"}}
      completeClients ==
        {id \in appearedClients : res[id].status = "Complete"}
  IN  /\ DOMAIN res # {}
      /\ finishedClients # {} \/ appearedClients = {}
      /\ appearedClients = clientsToCheck \/ n >= WaitFloor
      /\ \/ \A id \in completeClients : Truthy(captured, id)
         \/ n >= ScreenshotFloor

\* checkIfShouldExit counting as appeared every client of this snapshot or
\* with an outcome recorded from an earlier one.
CheckIfShouldExitRemembers(requestedClients, res, captured, n) ==
  LET clientsToCheck == ClientsToCheck(res, requestedClients)
      appearedClients == {id \in clientsToCheck : id \in DOMAIN res}
      everAppeared ==
        {id \in clientsToCheck : id \in DOMAIN res \cup DOMAIN captured}
      finishedClients ==
        {id \in appearedClients :
           res[id].status \in {"Complete", "Failed", "Bounced"}}
      completeClients ==
        {id \in appearedClients : res[id].status = "Complete"}
  IN  /\ DOMAIN res # {}
      /\ finishedClients = appearedClients
      /\ everAppeared = clientsToCheck \/ n >= WaitFloor
      /\ \/ \A id \in completeClients : Truthy(captured, id)
         \/ n >= ScreenshotFloor

\* checkIfShouldExit without its first line: an empty snapshot is judged
\* like any other.
CheckIfShouldExitOnEmpty(requestedClients, res, captured, n) ==
  LET clientsToCheck == ClientsToCheck(res, requestedClients)
      appearedClients == {id \in clientsToCheck : id \in DOMAIN res}
      finishedClients ==
        {id \in appearedClients :
           res[id].status \in {"Complete", "Failed", "Bounced"}}
      completeClients ==
        {id \in appearedClients : res[id].status = "Complete"}
  IN  /\ finishedClients = appearedClients
      /\ appearedClients = clientsToCheck \/ n >= WaitFloor
      /\ \/ \A id \in completeClients : Truthy(captured, id)
         \/ n >= ScreenshotFloor

\* checkIfShouldExit without triedEnoughForScreenshots: a Complete client
\* without URL keeps the loop polling at every attempt.
CheckIfShouldExitNoScreenshotFloor(requestedClients, res, captured, n) ==
  LET clientsToCheck == ClientsToCheck(res, requestedClients)
      appearedClients == {id \in clientsToCheck : id \in DOMAIN res}
      finishedClients ==
        {id \in appearedClients :
           res[id].status \in {"Complete", "Failed", "Bounced"}}
      completeClients ==
        {id \in appearedClients : res[id].status = "Complete"}
  IN  /\ DOMAIN res # {}
      /\ finishedClients = appearedClients
      /\ appearedClients = clientsToCheck \/ n >= WaitFloor
      /\ \A id \in completeClients : Truthy(captured, id)

\* checkIfShouldExit that wants at least one client to check in the
\* snapshot.
CheckIfShouldExitNeedsAppearance(requestedClients, res, captured, n) ==
  LET clientsToCheck == ClientsToCheck(res, requestedClients)
      appearedClients == {id \in clientsToCheck : id \in DOMAIN res}
      finishedClients ==
        {id \in appearedClients :
           res[id].status \in {"Complete", "Failed", "Bounced"}}
      completeClients ==
        {id \in appearedClients : res[id].status = "Complete"}
  IN  /\ appearedClients # {}
      /\ finishedClients = appearedClients
      /\ appearedClients = clientsToCheck \/ n >= WaitFloor
      /\ \/ \A id \in completeClients : Truthy(captured, id)
         \/ n >= ScreenshotFloor

\* checkIfShouldExit with || for && in the grace test: a complete snapshot
\* does not end the loop before attempt 10.
CheckIfShouldExitAlwaysWaits(requestedClients, res, captured, n) ==
  LET clientsToCheck == ClientsToCheck(res, requestedClients)
      appearedClients == {id \in clientsToCheck : id \in DOMAIN res}
      finishedClients ==
        {id \in appearedClients :
           res[id].status \in {"Complete", "Failed", "Bounced"}}
      completeClients ==
        {id \in appearedClients : res[id].status = "Complete"}
  IN  /\ DOMAIN res # {}
      /\ finishedClients = appearedClients
      /\ ~(appearedClients # clientsToCheck \/ ~(n >= WaitFloor))
      /\ \/ \A id \in completeClients : Truthy(captured, id)
         \/ n >= ScreenshotFloor

\* checkIfShouldExit without the grace test: a snapshot that lacks a
\* requested client can end the loop at any attempt.
CheckIfShouldExitNoGrace(requestedClients, res, captured, n) ==
  LET clientsToCheck == ClientsToCheck(res, requestedClients)
      appearedClients == {id \in clientsToCheck : id \in DOMAIN res}
      finishedClients ==
        {id \in appearedClients :
           res[id].status \in {"Complete", "Failed", "Bounced"}}
      completeClients ==
        {id \in appearedClients : res[id].status = "Complete"}
  IN  /\ DOMAIN res # {}
      /\ finishedClients = appearedClients
      /\ \/ \A id \in completeClients : Truthy(captured, id)
         \/ n >= ScreenshotFloor

\* checkIfShouldExit
CheckIfShouldExit(requestedClients, res, captured, n) ==
  IF DOMAIN res = {}
    THEN FALSE
    ELSE
      LET clientsToCheck == ClientsToCheck(res, requestedClients)
          appearedClients == {id \in clientsToCheck : id \in DOMAIN res}
          finishedClients ==
            {id \in appearedClients :
               res[id].status \in {"Complete", "Failed", "Bounced"}}
          allFinished ==
            Cardinality(finishedClients) = Cardinality(appearedClients)
          allRequestedAppeared ==
            Cardinality(appearedClients) = Cardinality(clientsToCheck)
          waitedLongEnough == n >= WaitFloor
          completeClients ==
            {id \in appearedClients : res[id].status = "Complete"}
          completeWithUrls ==
            {id \in completeClients : Truthy(captured, id)}
          allCompleteHaveUrls ==
            Cardinality(completeWithUrls) = Cardinality(completeClients)
          triedEnoughForScreenshots == n >= ScreenshotFloor
      IN  IF ~allFinished THEN FALSE
          ELSE IF ~allRequestedAppeared /\ ~waitedLongEnough THEN FALSE
          ELSE allCompleteHaveUrls \/ triedEnoughForScreenshots

\* buildFinalResults without its filter: failures are returned too.
BuildFinalResultsUnfiltered(requestedClients, captured) == captured

\* buildFinalResults: the successful URLs it returns.
BuildFinalResults(requestedClients, captured) ==
  [id \in {c \in DOMAIN captured : captured[c] # FailedMark} |-> captured[id]]

\* The summary with neverAppeared computed by truthiness instead of key
\* membership: failed clients are also listed as never appeared.
FinalReportByTruthiness(requestedClients, captured) ==
  LET successfulUrls == BuildFinalResults(requestedClients, captured)
      successCount == Cardinality(DOMAIN successfulUrls)
      failedIds == {c \in DOMAIN captured : captured[c] = FailedMark}
      neverAppeared == {c \in requestedClients : ~Truthy(captured, c)}
  IN  IF successCount = Cardinality(requestedClients)
        THEN [all |-> TRUE, success |-> successCount,
              failed |-> {}, never |-> {}]
        ELSE [all |-> FALSE, success |-> successCount,
              failed |-> failedIds, never |-> neverAppeared]

\* buildFinalResults: the summary it prints (successCount, and the Failed /
\* Never-appeared lines printed unless every requested client succeeded).
FinalReport(requestedClients, captured) ==
  LET successfulUrls == BuildFinalResults(requestedClients, captured)
      successCount == Cardinality(DOMAIN successfulUrls)
      failedIds == {c \in DOMAIN captured : captured[c] = FailedMark}
      neverAppeared == {c \in requestedClients : c \notin DOMAIN captured}
  IN  IF successCount = Cardinality(requestedClients)
        THEN [all |-> TRUE, success |-> successCount,
              failed |-> {}, never |-> {}]
        ELSE [all |-> FALSE, success |-> successCount,
              failed |-> failedIds, never |-> neverAppeared]

\* The report before buildFinalResults has run.
NoReport == [all |-> FALSE, success |-> 0, failed |-> {}, never |-> {}]

\* fetchResults without the 401 test: every HTTP error is retried.
FetchResultsRetriesAuth(resp) ==
  CASE resp.kind = "data" -> Data(resp.body)
    [] resp.kind = "nodata" -> Data(EmptyMap)
    [] OTHER -> Null

\* fetchResults that answers an HTTP 404 with the empty mapping instead of
\* null.
FetchResultsEmptyOnNotFound(resp) ==
  CASE resp.kind = "data" -> Data(resp.body)
    [] resp.kind = "nodata" -> Data(EmptyMap)
    [] resp.kind = "http" ->
         IF resp.status = AuthStatus THEN Throw
         ELSE IF resp.status = 404 THEN Data(EmptyMap) ELSE Null
    [] OTHER -> Null

\* fetchResults: what it returns for the outcome resp of axios.get.
FetchResults(resp) ==
  CASE resp.kind = "data" -> Data(resp.body)
    [] resp.kind = "nodata" -> Data(EmptyMap)
    [] resp.kind = "http" ->
         IF resp.status = AuthStatus THEN Throw ELSE Null
    [] OTHER -> Null

\* A loop that runs one attempt too many.
LoopConditionOffByOne(n, budget) == n <= budget + 1

\* The condition of the for loop of getPreviewUrls.
LoopCondition(n, budget) == n <= budget

\* wait without the test of currentAttempt: it sleeps after the last
\* attempt too.
WaitSleepsAlways(currentAttempt, budget) == 1

\* wait: the number of sleeps it performs after attempt currentAttempt.
WaitSleeps(currentAttempt, budget) ==
  IF currentAttempt < budget THEN 1 ELSE 0

\* --------------------------------------------------------- sanitizeFilename
\* The longest string of arbitrary characters in a task name.
MaxSeedLen == 3

\* substring(0, 100).
NameLimit == 100

\* The characters of a task name: a capital and a small letter, a digit,
\* a space, a tab, the hyphen, the dot, the underscore and a character that
\* is none of these.
Alphabet == {"Q", "q", "7", " ", "\t", "-", ".", "_", "#"}

\* a-z, 0-9 and \s among the characters above.
SmallLetters == {"q"}
Digits == {"7"}
Whitespace == {" ", "\t"}

\* The sequences over S of length at most n.
SeqsUpTo(S, n) == UNION {[1..k -> S] : k \in 0..n}

\* n times the character ch.
Run(ch, n) == [i \in 1..n |-> ch]

\* Task names: a short string of arbitrary characters, alone, or before or
\* after a run of letters that makes the name about NameLimit long.
Names ==
  LET seeds == SeqsUpTo(Alphabet, MaxSeedLen)
      runs == {Run("q", n) : n \in {NameLimit - 2, NameLimit - 1, NameLimit}}
  IN  seeds \cup {r \o x : r \in runs, x \in seeds}
            \cup {x \o r : r \in runs, x \in seeds}

\* String.prototype.toLowerCase.
ToLowerCase(str) ==
  [i \in 1..Len(str) |-> IF str[i] = "Q" THEN "q" ELSE str[i]]

\* The characters the class [^a-z0-9\s-.] does not match.
Kept(ch) == ch \in SmallLetters \cup Digits \cup Whitespace \cup {"-", "."}

\* replace(/[^a-z0-9\s-.]/g, '').
StripOthers(str) == SelectSeq(str, Kept)

\* A character of the string after a replacement, not the deleted one.
NotDeleted(ch) == ch # ""

\* replace(/\s+/g, separator): every maximal run of whitespace becomes one
\* separator (its first character becomes the separator, the others are
\* deleted).
ReplaceWhitespace(str, separator) ==
  LET replaced ==
        [i \in 1..Len(str) |->
           IF str[i] \notin Whitespace THEN str[i]
           ELSE IF i > 1 /\ str[i - 1] \in Whitespace THEN ""
           ELSE separator]
  IN  SelectSeq(replaced, NotDeleted)

\* substring(0, n).
Substring(str, n) == SubSeq(str, 1, IF Len(str) < n THEN Len(str) ELSE n)

\* A sanitizer that does not cut its result.
SanitizeFilenameUncut(name, useHyphens) ==
  LET cleaned == StripOthers(ToLowerCase(name))
      separator == IF useHyphens THEN "-" ELSE "_"
  IN  ReplaceWhitespace(cleaned, separator)

\* sanitizeFilename.
SanitizeFilename(name, useHyphens) ==
  LET cleaned == StripOthers(ToLowerCase(name))
      separator == IF useHyphens THEN "-" ELSE "_"
  IN  Substring(ReplaceWhitespace(cleaned, separator), NameLimit)

\* The sanitizer of playwright.config.ts with \s for \s+: every whitespace
\* character becomes one hyphen.
ConfigSanitizeFilenameEachSpace(name) ==
  LET cleaned == SelectSeq(ToLowerCase(name), Kept)
  IN  Substring(
        [i \in 1..Len(cleaned) |->
           IF cleaned[i] \in Whitespace THEN "-" ELSE cleaned[i]],
        NameLimit)

\* sanitizeFilename of playwright.config.ts.
ConfigSanitizeFilename(name) ==
  Substring(
    ReplaceWhitespace(SelectSeq(ToLowerCase(name), Kept), "-"),
    NameLimit)

\* The project name used when TASK_NAME is not set.
Staging == <<"s", "t", "a", "g", "i", "n", "g">>

\* projectName of playwright.config.ts: the key of the baseline folder.
ProjectName(taskName) ==
  IF taskName # <<>> THEN ConfigSanitizeFilename(taskName) ELSE Staging

\* No call of the sanitizer is under observation.
NoSanitizing ==
  [pc |-> "idle", name |-> <<>>, useHyphens |-> TRUE, once |-> <<>>,
   twice |-> <<>>, config |-> <<>>, project |-> <<>>]

\* ------------------------------------------------------------ globalSetup
\* Values of EXISTING_EOA_TEST_ID || EOA_TEST_ID || ''.
ExistingTestIds == {"", " ", " 77 "}

\* The existing test id used as it is given.
TrimNothing(str) == str

\* String.prototype.trim on the values above.
Trim(str) ==
  CASE str = " " -> ""
    [] str = " 77 " -> "77"
    [] OTHER -> str

\* response.data.id of POST /tests ('' stands for a missing id).
InjectedIds == {"", "id1"}

\* Values of EMAIL_PREVIEW_SERVICE after toLowerCase.
ServiceNames == {"emailonacid", "litmus", "mailtrap"}

\* The name of a preview: underscores become spaces, every word is
\* capitalised, ' Preview' is appended.
PreviewName(client) ==
  CASE client = "gmail_web" -> "Gmail Web Preview"
    [] client = "outlook" -> "Outlook Preview"
    [] client = "iphone" -> "Iphone Preview"

\* generatedPreviews: one descriptor per entry of the map returned by
\* getPreviewUrls.
GeneratedPreviews(urlsMap) ==
  {[name |-> PreviewName(c), url |-> urlsMap[c], client |-> c] :
     c \in DOMAIN urlsMap}

\* The preview file does not exist.
NoFile == [exists |-> FALSE, previews |-> {}]

\* The preview file holds the list previews.
FileOf(previews) == [exists |-> TRUE, previews |-> previews]

\* The preview list left by an earlier run for the same task key: the run
\* starts with that list in the preview file and in one archive file.
OldPreviews ==
  {[name |-> PreviewName("outlook"), url |-> "u0", client |-> "outlook"]}

\* What globalSetup finds in its environment: TASK_NAME is set, the
\* default clients file exists, the API key and the account password of
\* the selected service are set, the value of EMAIL_PREVIEW_SERVICE, the
\* value of the existing test id, and whether emails/<key>.html exists.
Environments ==
  [taskName : BOOLEAN, clientsFile : BOOLEAN, credentials : BOOLEAN,
   service : ServiceNames, existingTestId : ExistingTestIds,
   htmlFile : BOOLEAN]

\* A factory whose litmus case builds a service instead of falling through
\* to the default case.
ConfigErrorAcceptsLitmus(e) ==
  \/ ~e.clientsFile
  \/ ~e.credentials
  \/ e.service \notin {"emailonacid", "litmus"}

\* getDesiredApiClients, getServiceCredentials or getEmailPreviewService
\* throws.
ConfigError(e) ==
  \/ ~e.clientsFile
  \/ ~e.credentials
  \/ e.service # "emailonacid"

\* No snapshot has been observed.
NoHistory == [appeared |-> {}, terminal |-> {}]

\* The observer after the snapshot res: the clients that some snapshot has
\* named so far and those that some snapshot has reported as Complete,
\* Failed or Bounced so far.
Observe(h, res) ==
  [appeared |-> h.appeared \cup DOMAIN res,
   terminal |-> h.terminal \cup
      {c \in DOMAIN res : res[c].status \in {"Complete", "Failed", "Bounced"}}]

\* The blueprint spec has not been loaded.
NoTests == [loaded |-> FALSE, previews |-> {}, compared |-> {}]

\* The state of a run before globalSetup is called, but for its
\* environment.
RunStart ==
  /\ pc = "start"
  /\ requested = {}
  /\ testId = ""
  /\ maxAttempts = 0
  /\ attempt = 0
  /\ capturedUrls = EmptyMap
  /\ response = NoResponse
  /\ results = Unset
  /\ stop = "none"
  /\ fetchCalls = 0
  /\ sleeps = 0
  /\ ruleChecks = 0
  /\ submitCalls = 0
  /\ submitOutcome = "none"
  /\ previewUrlsMap = EmptyMap
  /\ report = NoReport
  /\ file = FileOf(OldPreviews)
  /\ archives = <<OldPreviews>>
  /\ error = "none"
  /\ tests = NoTests
  /\ history = NoHistory

\* The state of a run before globalSetup is called.
InitRun ==
  /\ RunStart
  /\ env \in Environments
  /\ san = NoSanitizing

Init == InitRun /\ rendered \in {Clients, FewClients}

\* A run against a remote test that renders two clients.
InitFew == InitRun /\ rendered = FewClients

\* A run against the other remote test that renders two clients.
InitPair == InitRun /\ rendered = PairClients

\* A call of sanitizeFilename on a task name, with either separator.
InitSanitizer ==
  /\ RunStart
  /\ env = [taskName |-> TRUE, clientsFile |-> TRUE, credentials |-> TRUE,
            service |-> "emailonacid", existingTestId |-> "",
            htmlFile |-> TRUE]
  /\ rendered = FewClients
  /\ \E name \in Names, useHyphens \in BOOLEAN :
       san = [pc |-> "called", name |-> name, useHyphens |-> useHyphens,
              once |-> <<>>, twice |-> <<>>, config |-> <<>>,
              project |-> <<>>]

\* getPreviewUrls up to its first await: the test id check, the tunables,
\* the empty capturedUrls and the first test of the loop condition.
BeginPolling(id) ==
  /\ testId' = id
  /\ IF id = ""
       THEN /\ pc' = "failed"
            /\ error' = "missing test id"
            /\ UNCHANGED <<maxAttempts, attempt>>
       ELSE /\ maxAttempts' \in AttemptBudgets
            /\ attempt' = 1
            /\ pc' = IF LoopCondition(1, maxAttempts')
                         THEN "fetch" ELSE "return"
            /\ error' = "none"
  /\ capturedUrls' = EmptyMap
  /\ stop' = IF id # "" /\ pc' = "return" THEN "budget" ELSE "none"

\* globalSetup without TASK_NAME: it warns and returns.
SetupSkip ==
  /\ pc = "start"
  /\ ~env.taskName
  /\ pc' = "skipped"
  /\ UNCHANGED <<san, tests, history>>
  /\ UNCHANGED <<env, rendered, requested, testId, maxAttempts, attempt,
                 capturedUrls, response, results, stop, fetchCalls, sleeps,
                 ruleChecks, submitCalls, submitOutcome, previewUrlsMap,
                 report, file, archives, error>>

\* globalSetup throws before step A: the clients file is missing, a
\* credential is missing, or the service selector is not supported.
SetupConfigError ==
  /\ pc = "start"
  /\ env.taskName
  /\ ConfigError(env)
  /\ pc' = "failed"
  /\ error' = "config"
  /\ UNCHANGED <<san, tests, history>>
  /\ UNCHANGED <<env, rendered, requested, testId, maxAttempts, attempt,
                 capturedUrls, response, results, stop, fetchCalls, sleeps,
                 ruleChecks, submitCalls, submitOutcome, previewUrlsMap,
                 report, file, archives>>

\* Step A with an existing test id: it is trimmed, an empty id is an error,
\* otherwise getPreviewUrls is called with it.
SetupExisting ==
  /\ pc = "start"
  /\ env.taskName
  /\ ~ConfigError(env)
  /\ env.existingTestId # ""
  /\ \E req \in ExistingRequests(rendered) :
       /\ requested' = req
       /\ IF Trim(env.existingTestId) = ""
            THEN /\ pc' = "failed"
                 /\ error' = "config"
                 /\ UNCHANGED <<testId, maxAttempts, attempt,
                                capturedUrls, stop>>
            ELSE BeginPolling(Trim(env.existingTestId))
  /\ UNCHANGED <<san, tests, history>>
  /\ UNCHANGED <<env, rendered, response, results, fetchCalls, sleeps,
                 ruleChecks, submitCalls, submitOutcome, previewUrlsMap,
                 report, file, archives>>

\* Step A without an existing test id: the HTML file must exist, then
\* injectHtml posts it.
SetupCreate ==
  /\ pc = "start"
  /\ env.taskName
  /\ ~ConfigError(env)
  /\ env.existingTestId = ""
  /\ \E req \in CreateRequests(rendered) :
       /\ requested' = req
       /\ IF env.htmlFile
            THEN /\ pc' = "inject"
                 /\ error' = "none"
            ELSE /\ pc' = "failed"
                 /\ error' = "config"
  /\ UNCHANGED <<san, tests, history>>
  /\ UNCHANGED <<env, rendered, testId, maxAttempts, attempt, capturedUrls,
                 response, results, stop, fetchCalls, sleeps, ruleChecks,
                 submitCalls, submitOutcome, previewUrlsMap, report, file,
                 archives>>

\* Outcomes of the POST /tests that make injectHtml throw: the request is
\* rejected, or its response carries no id.
SubmitFailures == {"rejected", "no id"}

\* An injectHtml that posts the HTML again when the POST fails.
InjectFailsAndRetries ==
  /\ pc = "inject"
  /\ submitCalls' = submitCalls + 1
  /\ submitOutcome' \in SubmitFailures
  /\ pc' = IF submitCalls' < 2 THEN "inject" ELSE "failed"
  /\ error' = "submission"
  /\ UNCHANGED <<san, tests, history>>
  /\ UNCHANGED <<env, rendered, requested, testId, maxAttempts, attempt,
                 capturedUrls, response, results, stop, fetchCalls, sleeps,
                 ruleChecks, previewUrlsMap, report, file, archives>>

\* injectHtml throws, globalSetup catches and handleError rethrows.
InjectFails ==
  /\ pc = "inject"
  /\ submitCalls' = submitCalls + 1
  /\ submitOutcome' \in SubmitFailures
  /\ pc' = "failed"
  /\ error' = "submission"
  /\ UNCHANGED <<san, tests, history>>
  /\ UNCHANGED <<env, rendered, requested, testId, maxAttempts, attempt,
                 capturedUrls, response, results, stop, fetchCalls, sleeps,
                 ruleChecks, previewUrlsMap, report, file, archives>>

\* injectHtml returns the id of the new test and getPreviewUrls is called.
InjectSucceeds ==
  /\ pc = "inject"
  /\ submitCalls' = submitCalls + 1
  /\ submitOutcome' = "created"
  /\ \E id \in InjectedIds \ {""} : BeginPolling(id)
  /\ UNCHANGED <<san, tests, history>>
  /\ UNCHANGED <<env, rendered, requested, response, results, fetchCalls,
                 sleeps, ruleChecks, previewUrlsMap, report, file, archives>>

\* ------------------------------------------- the loop of getPreviewUrls
\* A loop that leaves on a 401 and returns what it has captured.
FetchAuthFailureKeepsPartial ==
  /\ pc = "fetch"
  /\ \E resp \in Responses(rendered) :
       /\ FetchResults(resp) = Throw
       /\ response' = Outcome(resp)
       /\ fetchCalls' = fetchCalls + 1
       /\ pc' = "return"
       /\ stop' = "auth"
       /\ error' = "auth"
  /\ UNCHANGED <<san, tests, history>>
  /\ UNCHANGED <<env, rendered, requested, testId, maxAttempts, attempt,
                 capturedUrls, results, sleeps, ruleChecks, submitCalls,
                 submitOutcome, previewUrlsMap, report, file, archives>>

\* fetchResults throws on a 401: getPreviewUrls rejects, globalSetup
\* catches and handleError rethrows.
FetchAuthFailure ==
  /\ pc = "fetch"
  /\ \E resp \in Responses(rendered) :
       /\ FetchResults(resp) = Throw
       /\ response' = Outcome(resp)
       /\ fetchCalls' = fetchCalls + 1
       /\ pc' = "failed"
       /\ stop' = "auth"
       /\ error' = "auth"
  /\ UNCHANGED <<san, tests, history>>
  /\ UNCHANGED <<env, rendered, requested, testId, maxAttempts, attempt,
                 capturedUrls, results, sleeps, ruleChecks, submitCalls,
                 submitOutcome, previewUrlsMap, report, file, archives>>

\* fetchResults returns null: the loop calls wait and continues.
FetchSoftFailure ==
  /\ pc = "fetch"
  /\ \E resp \in Responses(rendered) :
       /\ FetchResults(resp) = Null
       /\ response' = Outcome(resp)
       /\ fetchCalls' = fetchCalls + 1
       /\ results' = Null
       /\ pc' = "wait"
  /\ UNCHANGED <<san, tests, history>>
  /\ UNCHANGED <<env, rendered, requested, testId, maxAttempts, attempt,
                 capturedUrls, stop, sleeps, ruleChecks, submitCalls,
                 submitOutcome, previewUrlsMap, report, file, archives,
                 error>>

\* The step below with the number of snapshots processed passed to
\* checkIfShouldExit for the attempt number.
FetchSnapshotStepCountsSnapshots ==
  /\ pc = "fetch"
  /\ \E resp \in Responses(rendered) :
       /\ FetchResults(resp).kind = "data"
       /\ response' = Outcome(resp)
       /\ fetchCalls' = fetchCalls + 1
       /\ results' = FetchResults(resp)
       /\ capturedUrls' =
            ProcessClientResults(results'.body, requested, capturedUrls)
       /\ ruleChecks' = ruleChecks + 1
       /\ IF CheckIfShouldExit(requested, results'.body, capturedUrls',
                               ruleChecks')
            THEN pc' = "return" /\ stop' = "rule"
            ELSE pc' = "wait" /\ stop' = stop
  /\ UNCHANGED <<san, tests>>
  /\ UNCHANGED <<env, rendered, requested, testId, maxAttempts, attempt,
                 sleeps, submitCalls, submitOutcome, previewUrlsMap, report,
                 file, archives, error>>

\* fetchResults returns a mapping: processClientResults, checkIfShouldExit,
\* then either break or wait.
FetchSnapshotStep ==
  /\ pc = "fetch"
  /\ \E resp \in Responses(rendered) :
       /\ FetchResults(resp).kind = "data"
       /\ response' = Outcome(resp)
       /\ fetchCalls' = fetchCalls + 1
       /\ results' = FetchResults(resp)
       /\ capturedUrls' =
            ProcessClientResults(results'.body, requested, capturedUrls)
       /\ ruleChecks' = ruleChecks + 1
       /\ IF CheckIfShouldExit(requested, results'.body, capturedUrls',
                               attempt)
            THEN pc' = "return" /\ stop' = "rule"
            ELSE pc' = "wait" /\ stop' = stop
  /\ UNCHANGED <<san, tests>>
  /\ UNCHANGED <<env, rendered, requested, testId, maxAttempts, attempt,
                 sleeps, submitCalls, submitOutcome, previewUrlsMap, report,
                 file, archives, error>>

\* The step above.
FetchSnapshot == FetchSnapshotStep /\ UNCHANGED history

\* The step above with the observer recording the snapshot.
FetchSnapshotObserved ==
  FetchSnapshotStep /\ history' = Observe(history, results'.body)

\* A loop that throws when the budget is used up instead of returning what
\* it captured.
WaitThrowsOnExhaustion ==
  /\ pc = "wait"
  /\ sleeps' = sleeps + WaitSleeps(attempt, maxAttempts)
  /\ attempt' = attempt + 1
  /\ response' = NoResponse
  /\ results' = Unset
  /\ IF LoopCondition(attempt', maxAttempts)
       THEN pc' = "fetch" /\ stop' = stop /\ error' = error
       ELSE pc' = "failed" /\ stop' = "budget" /\ error' = "timeout"
  /\ UNCHANGED <<san, tests, history>>
  /\ UNCHANGED <<env, rendered, requested, testId, maxAttempts, capturedUrls,
                 fetchCalls, ruleChecks, submitCalls, submitOutcome,
                 previewUrlsMap, report, file, archives>>

\* wait, attempt++ and the test of the loop condition.
Wait ==
  /\ pc = "wait"
  /\ sleeps' = sleeps + WaitSleeps(attempt, maxAttempts)
  /\ attempt' = attempt + 1
  /\ response' = NoResponse
  /\ results' = Unset
  /\ IF LoopCondition(attempt', maxAttempts)
       THEN pc' = "fetch" /\ stop' = stop
       ELSE pc' = "return" /\ stop' = "budget"
  /\ UNCHANGED <<san, tests, history>>
  /\ UNCHANGED <<env, rendered, requested, testId, maxAttempts, capturedUrls,
                 fetchCalls, ruleChecks, submitCalls, submitOutcome,
                 previewUrlsMap, report, file, archives, error>>

\* A step B that writes the archive copy only.
MaterializeArchiveOnly ==
  /\ pc = "return"
  /\ previewUrlsMap' = BuildFinalResults(requested, capturedUrls)
  /\ report' = FinalReport(requested, capturedUrls)
  /\ file' = file
  /\ archives' = Append(archives, GeneratedPreviews(previewUrlsMap'))
  /\ response' = NoResponse
  /\ results' = Unset
  /\ pc' = "finished"
  /\ UNCHANGED <<san, tests, history>>
  /\ UNCHANGED <<env, rendered, requested, testId, maxAttempts, attempt,
                 capturedUrls, stop, fetchCalls, sleeps, ruleChecks,
                 submitCalls, submitOutcome, error>>

\* buildFinalResults returns, globalSetup maps the result to the preview
\* list, writes the preview file and its archive copy.
Materialize ==
  /\ pc = "return"
  /\ previewUrlsMap' = BuildFinalResults(requested, capturedUrls)
  /\ report' = FinalReport(requested, capturedUrls)
  /\ file' = FileOf(GeneratedPreviews(previewUrlsMap'))
  /\ archives' = Append(archives, GeneratedPreviews(previewUrlsMap'))
  /\ response' = NoResponse
  /\ results' = Unset
  /\ pc' = "finished"
  /\ UNCHANGED <<san, tests, history>>
  /\ UNCHANGED <<env, rendered, requested, testId, maxAttempts, attempt,
                 capturedUrls, stop, fetchCalls, sleeps, ruleChecks,
                 submitCalls, submitOutcome, error>>

\* ---------------------------------------------------- the blueprint spec
\* The variables of globalSetup and of the polling session.
setupVars == <<env, pc, rendered, requested, testId, maxAttempts, attempt,
               capturedUrls, response, results, stop, fetchCalls, sleeps,
               ruleChecks, submitCalls, submitOutcome, previewUrlsMap,
               report, file, archives, error>>

\* generatedPreviews of the blueprint spec: nothing without TASK_NAME or
\* without the preview file, else the list parsed from the file.
LoadedPreviews(e, f) ==
  IF e.taskName /\ f.exists THEN f.previews ELSE {}

\* A blueprint spec that is evaluated while globalSetup may still run.
LoadPreviewsDuringSetup ==
  /\ ~tests.loaded
  /\ tests' = [loaded |-> TRUE, previews |-> LoadedPreviews(env, file),
               compared |-> {}]
  /\ UNCHANGED <<san, history>>
  /\ UNCHANGED setupVars

\* The blueprint spec is evaluated: it reads the preview file and generates
\* one test per preview.  The test runner does this once globalSetup has
\* returned (playwright.config.ts, globalSetup: "Runs once before ALL
\* tests"); it runs no test when globalSetup has thrown.
LoadPreviews ==
  /\ pc \in {"finished", "skipped"}
  /\ ~tests.loaded
  /\ tests' = [loaded |-> TRUE, previews |-> LoadedPreviews(env, file),
               compared |-> {}]
  /\ UNCHANGED <<san, history>>
  /\ UNCHANGED setupVars

\* One generated test runs: it opens the URL of its preview and compares
\* the screenshot with the baseline.  The tests run in parallel, in any
\* order.
ComparePreview ==
  /\ tests.loaded
  /\ \E preview \in tests.previews :
       /\ preview.client \notin tests.compared
       /\ tests' = [tests EXCEPT !.compared = @ \cup {preview.client}]
  /\ UNCHANGED <<san, history>>
  /\ UNCHANGED setupVars

Next ==
  \/ SetupSkip
  \/ SetupConfigError
  \/ SetupExisting
  \/ SetupCreate
  \/ InjectFails
  \/ InjectSucceeds
  \/ FetchAuthFailure
  \/ FetchSoftFailure
  \/ FetchSnapshot
  \/ Wait
  \/ Materialize
  \/ LoadPreviews
  \/ ComparePreview

Spec == Init /\ [][Next]_vars

\* The run with the observer of the snapshots.
NextObserved ==
  \/ SetupSkip
  \/ SetupConfigError
  \/ SetupExisting
  \/ SetupCreate
  \/ InjectFails
  \/ InjectSucceeds
  \/ FetchAuthFailure
  \/ FetchSoftFailure
  \/ FetchSnapshotObserved
  \/ Wait
  \/ Materialize
  \/ LoadPreviews
  \/ ComparePreview

ObservedSpec == InitPair /\ [][NextObserved]_vars

\* The event loop runs every continuation that is ready: each HTTP call
\* settles and each sleep ends.
FairSpec == InitFew /\ [][Next]_vars /\ WF_vars(Next)

\* ------------------------------------------------ calls of the sanitizer
\* Everything but the sanitizer under test.
runVars == <<tests, history, env, pc, rendered, requested, testId,
             maxAttempts, attempt, capturedUrls, response, results, stop,
             fetchCalls, sleeps, ruleChecks, submitCalls, submitOutcome,
             previewUrlsMap, report, file, archives, error>>

\* sanitizeFilename(name, useHyphens) returns.
SanitizeOnce ==
  /\ san.pc = "called"
  /\ san' = [san EXCEPT !.pc = "returned",
                        !.once = SanitizeFilename(san.name, san.useHyphens),
                        !.config = ConfigSanitizeFilename(san.name),
                        !.project = ProjectName(san.name)]
  /\ UNCHANGED runVars

\* sanitizeFilename is called on its own result, with the same separator.
SanitizeAgain ==
  /\ san.pc = "returned"
  /\ san' = [san EXCEPT !.pc = "returned again",
                        !.twice = SanitizeFilename(san.once, san.useHyphens)]
  /\ UNCHANGED runVars

NextSanitizer ==
  \/ SanitizeOnce
  \/ SanitizeAgain

SanitizerSpec == InitSanitizer /\ [][NextSanitizer]_vars

\* ================================================================ claims
\* The recorded outcome of client c is Complete(url) or Failed.
Recorded(c) == c \in DOMAIN capturedUrls

\* The run has left the polling loop (or never entered it).
LoopStopped == pc \in {"skipped", "failed", "return", "finished"}

\* C1: once a client's recorded outcome is Complete(url) or Failed (the
\* empty-string mark), no later step of the polling session changes it.
C1_Monotonic ==
  [][\A c \in Clients :
       Recorded(c) =>
         /\ c \in DOMAIN capturedUrls'
         /\ capturedUrls'[c] = capturedUrls[c]]_vars

\* C2: the polling loop performs one fetch per attempt, the attempt counter
\* starts at 1 and grows by one, at most maxAttempts fetches are made, and
\* the loop eventually stops.
C2_BoundedTermination ==
  /\ [](fetchCalls <= maxAttempts)
  /\ [](pc = "fetch" => fetchCalls = attempt - 1)
  /\ [](pc = "wait" => fetchCalls = attempt)
  /\ [][fetchCalls' # fetchCalls =>
          fetchCalls' = attempt /\ attempt' = attempt]_vars
  /\ [][attempt' # attempt => attempt' = attempt + 1]_vars
  /\ <>LoopStopped

\* C2 witness: the largest budget is used up by soft failures and empty
\* snapshots, one fetch per attempt.
C2_Witness ==
  /\ pc = "return"
  /\ stop = "budget"
  /\ maxAttempts = MaxAttempts
  /\ fetchCalls = MaxAttempts
  /\ capturedUrls = EmptyMap

\* The snapshot of the current attempt reports client c Complete with a
\* screenshot URL.
CompleteWithUrl(c) ==
  /\ results.kind = "data"
  /\ c \in DOMAIN results.body
  /\ results.body[c].status = "Complete"
  /\ results.body[c].url # NoUrl

\* A snapshot has been processed in the current attempt.
Processed == pc \in {"wait", "return"} /\ results.kind = "data"

\* The loop ended at the current attempt because checkIfShouldExit fired.
ExitedByRule == pc = "return" /\ stop = "rule"

\* C3 as stated: whenever the snapshot of attempt n shows every requested
\* client Complete with a URL, the loop terminates at attempt n.
C3_Original ==
  (Processed /\ \A c \in requested : CompleteWithUrl(c)) => ExitedByRule

\* C3 amended: with a non-empty requested set, whenever the snapshot of
\* attempt n shows every requested client Complete with a URL the loop
\* terminates at attempt n, and after a rule-driven termination no fetch
\* and no sleep happens and the attempt counter stays at n.
C3_EarlyTermination ==
  /\ []((Processed /\ requested # {}
           /\ \A c \in requested : CompleteWithUrl(c)) => ExitedByRule)
  /\ [][stop = "rule" =>
          /\ fetchCalls' = fetchCalls
          /\ sleeps' = sleeps
          /\ attempt' = attempt
          /\ pc' \notin {"fetch", "wait"}]_vars

\* C3 witness: all three requested clients are Complete with URLs on
\* attempt 3 of 16 and the loop has ended there after two sleeps.
C3_Witness ==
  /\ ExitedByRule
  /\ requested = Clients
  /\ \A c \in requested : CompleteWithUrl(c)
  /\ attempt = 3
  /\ fetchCalls = 3
  /\ sleeps = 2
  /\ maxAttempts = MaxAttempts

\* The clients whose final outcome is Complete(url).
CompleteClients == {c \in DOMAIN capturedUrls : capturedUrls[c] # FailedMark}

\* The clients whose final outcome is Failed.
FailedClients == {c \in DOMAIN capturedUrls : capturedUrls[c] = FailedMark}

\* The requested clients without a recorded outcome.
NeverAppeared == {c \in requested : c \notin DOMAIN capturedUrls}

\* The entries of the preview list l for client c.
EntriesFor(l, c) == {e \in l : e.client = c}

\* The clients named in the preview list l.
ClientsIn(l) == {e.client : e \in l}

\* C4: failed and never-appeared clients never fail the run: a loop that
\* ended by the rule or by the budget leads to a finished run without
\* error, whose preview file holds exactly one entry, with the captured
\* URL, for each client whose outcome is Complete(url) and no entry for a
\* failed or never-appeared client.
C4_PartialSuccess ==
  /\ (stop \in {"rule", "budget"} =>
        pc \in {"return", "finished"} /\ error = "none")
  /\ (pc = "finished" =>
        /\ file.exists
        /\ ClientsIn(file.previews) = CompleteClients
        /\ \A c \in CompleteClients :
             /\ Cardinality(EntriesFor(file.previews, c)) = 1
             /\ \A e \in EntriesFor(file.previews, c) :
                  e.url = capturedUrls[c]
        /\ \A c \in FailedClients \cup NeverAppeared :
             EntriesFor(file.previews, c) = {})

\* C4 witness: of three requested clients one completed with a URL, one
\* failed and one never appeared; the run finished and the preview file
\* holds the entry of the first only.
C4_Witness ==
  /\ pc = "finished"
  /\ requested = Clients
  /\ capturedUrls = [c \in {"gmail_web", "outlook"} |->
                       IF c = "gmail_web" THEN "u1" ELSE FailedMark]
  /\ file.previews =
       {[name |-> "Gmail Web Preview", url |-> "u1", client |-> "gmail_web"]}

\* The last archive file written.
LastArchive == archives[Len(archives)]

C6_IdempotentRepoll ==
  Processed =>
    ProcessClientResults(results.body, requested, capturedUrls) = capturedUrls

\* C6 witness: a snapshot with a failed, a complete and a pending client
\* has been processed onto outcomes recorded by earlier attempts, and the
\* loop goes on.
C6_Witness ==
  /\ pc = "wait"
  /\ attempt = 2
  /\ requested = Clients
  /\ results.kind = "data"
  /\ DOMAIN results.body = Clients
  /\ results.body["gmail_web"].status = "Bounced"
  /\ results.body["outlook"].status = "Complete"
  /\ results.body["outlook"].url = "u1"
  /\ results.body["iphone"].status = "Processing"
  /\ DOMAIN capturedUrls = {"gmail_web", "outlook"}
  /\ capturedUrls["gmail_web"] = "u2"
  /\ capturedUrls["outlook"] = "u1"

\* The poll response of the current attempt was rejected with HTTP 401.
AuthRejected == response.kind = "http" /\ response.status = AuthStatus

\* C7: a poll response rejected with HTTP 401 on attempt k fails the run
\* with the authentication error on that attempt: k fetches and k - 1
\* sleeps have been made, and no fetch, sleep or attempt follows.
C7_AuthShortCircuit ==
  /\ [](AuthRejected =>
          /\ pc = "failed"
          /\ error = "auth"
          /\ stop = "auth"
          /\ fetchCalls = attempt
          /\ sleeps = attempt - 1)
  /\ [][AuthRejected =>
          /\ fetchCalls' = fetchCalls
          /\ sleeps' = sleeps
          /\ attempt' = attempt]_vars

\* C7 witness: the second of 16 attempts is rejected with HTTP 401 and the
\* run has failed there.
C7_Witness ==
  /\ AuthRejected
  /\ pc = "failed"
  /\ attempt = 2
  /\ maxAttempts = MaxAttempts
  /\ fetchCalls = 2

\* The poll response of the current attempt was a soft failure: a network
\* error, an error that is not an axios error, or a non-401 HTTP error.
SoftFailed ==
  \/ response.kind \in {"network", "other"}
  \/ response.kind = "http" /\ response.status # AuthStatus

\* C8: an attempt whose fetch fails softly leaves capturedUrls unchanged,
\* does not evaluate checkIfShouldExit, raises no error and does not end
\* the loop; the loop calls wait, which sleeps when an attempt is left, and
\* goes on to the next attempt.
C8_SoftFailure ==
  /\ [][SoftFailed' /\ pc = "fetch" =>
          /\ capturedUrls' = capturedUrls
          /\ ruleChecks' = ruleChecks
          /\ results' = Null
          /\ error' = "none"
          /\ stop' = stop
          /\ pc' = "wait"]_vars
  /\ [][SoftFailed /\ pc = "wait" =>
          /\ capturedUrls' = capturedUrls
          /\ ruleChecks' = ruleChecks
          /\ error' = "none"
          /\ attempt' = attempt + 1
          /\ IF attempt < maxAttempts
               THEN sleeps' = sleeps + 1 /\ pc' = "fetch"
               ELSE sleeps' = sleeps /\ pc' = "return"
                    /\ stop' = "budget"]_vars

\* C8 witness: the fetch of attempt 2 got an HTTP 500 while an outcome was
\* already recorded; the loop is in wait with the outcome kept and with
\* checkIfShouldExit evaluated once, on attempt 1.
C8_Witness ==
  /\ pc = "wait"
  /\ response = [kind |-> "http", status |-> 500]
  /\ attempt = 2
  /\ ruleChecks = 1
  /\ capturedUrls = [c \in {"gmail_web"} |-> "u1"]

\* C9: the loop never ends by the rule at an attempt below 10 whose
\* snapshot lacks a requested client.
C9_GraceFloor ==
  (ExitedByRule /\ attempt < WaitFloor) =>
    \A c \in requested : c \in DOMAIN results.body

\* C9 witness: on attempt 9 two requested clients are Complete with URLs
\* and the third is missing from the snapshot; the loop has not ended.
C9_Witness ==
  /\ pc = "wait"
  /\ attempt = WaitFloor - 1
  /\ requested = Clients
  /\ results.kind = "data"
  /\ DOMAIN results.body = {"gmail_web", "outlook"}
  /\ CompleteWithUrl("gmail_web")
  /\ CompleteWithUrl("outlook")
  /\ DOMAIN capturedUrls = {"gmail_web", "outlook"}

\* C10: a loop that uses up its budget made maxAttempts fetches and returns
\* without error; the finished run has returned every captured URL and
\* written it to the preview file and to the archive copy.
C10_BudgetExhaustion ==
  /\ stop = "budget" =>
       /\ pc \in {"return", "finished"}
       /\ error = "none"
       /\ fetchCalls = maxAttempts
       /\ attempt = maxAttempts + 1
  /\ (stop = "budget" /\ pc = "finished") =>
       \A c \in CompleteClients :
         /\ c \in DOMAIN previewUrlsMap
         /\ previewUrlsMap[c] = capturedUrls[c]
         /\ \E e \in file.previews :
              e.client = c /\ e.url = capturedUrls[c]
         /\ \E e \in LastArchive :
              e.client = c /\ e.url = capturedUrls[c]

\* C10 witness: the largest budget ran out with one URL captured and one
\* requested client still pending; the run finished and the file holds
\* that URL.
C10_Witness ==
  /\ pc = "finished"
  /\ stop = "budget"
  /\ maxAttempts = MaxAttempts
  /\ requested = {"gmail_web", "outlook"}
  /\ capturedUrls = [c \in {"gmail_web"} |-> "u2"]
  /\ file.previews =
       {[name |-> "Gmail Web Preview", url |-> "u2", client |-> "gmail_web"]}


\* globalSetup has returned or thrown.
RunEnded == pc \in {"skipped", "failed", "finished"}

\* The preview file holds the list this run generated, which replaced the
\* list of the earlier run.
FileWritten ==
  /\ file = FileOf(GeneratedPreviews(previewUrlsMap))
  /\ file # FileOf(OldPreviews)

\* C11 as stated: every run that has ended has written the preview file of
\* its task key.
C11_Original == RunEnded => FileWritten

\* C11: every run ends; a run that ends without an error and with a task
\* identifier has written the preview file of its task key, possibly with
\* fewer previews than clients requested; a run that ends in a fatal error
\* or without a task identifier has written no preview file.
C11_TerminatesWithFile ==
  /\ <>RunEnded
  /\ [](pc = "finished" => FileWritten /\ env.taskName /\ error = "none")
  /\ [](pc \in {"skipped", "failed"} => file = FileOf(OldPreviews))
  /\ [](pc = "failed" <=> error # "none")
  /\ [](pc = "skipped" => ~env.taskName)

\* A finished run whose file lists one preview of the two clients requested
\* and rendered.
C11_Witness ==
  /\ pc = "finished"
  /\ stop = "budget"
  /\ requested = Clients
  /\ FileWritten
  /\ ClientsIn(file.previews) = {"gmail_web"}

\* The characters of the string str.
CharsOf(str) == {str[i] : i \in 1..Len(str)}

\* C12: sanitizing the result of the sanitizer again, with the same
\* separator setting, returns that result unchanged, for the hyphen and
\* for the underscore setting.
C12_Idempotent == san.pc = "returned again" => san.twice = san.once

\* The allowed set [a-z0-9 .-] among the characters of task names.
AllowedSet == SmallLetters \cup Digits \cup {" ", ".", "-"}

\* C13 as stated: the output is at most 100 characters long and holds only
\* characters of [a-z0-9 .-], with either separator.
C13_Original ==
  san.pc = "returned" =>
    /\ Len(san.once) <= NameLimit
    /\ CharsOf(san.once) \subseteq AllowedSet

\* C13: the output is at most 100 characters long; with the hyphen
\* separator it holds only characters of [a-z0-9.-], with the underscore
\* separator only characters of [a-z0-9.-] and the underscore; it never
\* holds whitespace.
C13_OutputRange ==
  san.pc = "returned" =>
    /\ Len(san.once) <= NameLimit
    /\ CharsOf(san.once) \subseteq
         SmallLetters \cup Digits \cup {".", "-"} \cup
           (IF san.useHyphens THEN {} ELSE {"_"})

\* A name longer than the limit whose result is cut to the limit and ends
\* with the underscore that replaced a run of whitespace.
C13_Witness ==
  /\ san.pc = "returned"
  /\ ~san.useHyphens
  /\ Len(san.name) > NameLimit
  /\ Len(san.once) = NameLimit
  /\ san.once[NameLimit] = "_"
  /\ "#" \in CharsOf(san.name)

\* No request has been sent to the preview service.
NoNetworkCall == fetchCalls = 0 /\ submitCalls = 0 /\ submitOutcome = "none"

\* C14 as stated: a missing task identifier, missing credentials, an
\* unsupported service selector and an unreachable content file each make
\* the run abort with an error before any network call.
C14_Original ==
  (/\ pc # "start"
   /\ \/ ~env.taskName
      \/ ~env.credentials
      \/ env.service # "emailonacid"
      \/ ~env.htmlFile)
    => pc = "failed" /\ error # "none" /\ NoNetworkCall

\* C14: with a task identifier, missing credentials, an unsupported service
\* selector and, when no existing test id is given, an unreachable content
\* file each make the run abort with an error before any network call;
\* without a task identifier the run ends before any network call too, but
\* with a warning and no error.
C14_ConfigurationFatal ==
  pc # "start" =>
    /\ (/\ env.taskName
        /\ \/ ~env.credentials
           \/ env.service # "emailonacid"
           \/ env.existingTestId = "" /\ ~env.htmlFile)
         => pc = "failed" /\ error = "config" /\ NoNetworkCall
    /\ ~env.taskName => pc = "skipped" /\ error = "none" /\ NoNetworkCall

\* A run with credentials for the service litmus has failed.
C14_Witness ==
  /\ pc = "failed"
  /\ error = "config"
  /\ env.taskName
  /\ env.clientsFile
  /\ env.credentials
  /\ env.service = "litmus"
  /\ env.htmlFile
  /\ NoNetworkCall

\* C15: when the POST of injectHtml is rejected or its response carries no
\* id, the run ends in an error after that one POST: the HTML is not posted
\* again and no GET of the results is ever made.
C15_SubmissionFatal ==
  /\ [](submitOutcome \in SubmitFailures =>
          /\ pc = "failed"
          /\ error = "submission"
          /\ submitCalls = 1
          /\ fetchCalls = 0)
  /\ [][(submitOutcome \in SubmitFailures) =>
          UNCHANGED <<pc, error, submitCalls, fetchCalls, file>>]_vars
  /\ [](submitCalls <= 1)

\* The response of the POST carried no id and the run has failed.
C15_Witness ==
  /\ submitOutcome = "no id"
  /\ pc = "failed"
  /\ error = "submission"
  /\ submitCalls = 1
  /\ fetchCalls = 0

Checked == IF requested # {} THEN requested ELSE DOMAIN results.body

\* Those of them that the snapshot of the current attempt names.
Present == Checked \cap DOMAIN results.body

\* The snapshot of the current attempt reports client c as Complete, Failed
\* or Bounced.
TerminalNow(c) ==
  results.body[c].status \in {"Complete", "Failed", "Bounced"}

\* C17 as stated: the loop does not end by the rule while a client to check
\* that some snapshot so far has named has never been reported in a
\* terminal status.
C17_Original ==
  ExitedByRule =>
    \A c \in Checked : c \in history.appeared => c \in history.terminal

\* C17: allFinished ranges over the clients to check that the snapshot of
\* the current attempt names: the loop does not end by the rule while one
\* of them is in a non-terminal status, and from attempt 15 on it ends as
\* soon as the snapshot is non-empty and all of them are terminal, whatever
\* earlier snapshots have shown.
C17_CurrentSnapshotOnly ==
  /\ ExitedByRule => \A c \in Present : TerminalNow(c)
  /\ (/\ Processed
      /\ DOMAIN results.body # {}
      /\ attempt >= ScreenshotFloor
      /\ \A c \in Present : TerminalNow(c)) => ExitedByRule

\* The loop has ended by the rule although a requested client that an
\* earlier snapshot named was never reported terminal; the last snapshot
\* does not name it.
C17_Witness ==
  /\ ExitedByRule
  /\ "gmail_web" \in requested
  /\ "gmail_web" \in history.appeared \ history.terminal
  /\ "gmail_web" \notin DOMAIN results.body

\* The snapshot of the current attempt is non-empty, all its clients to
\* check are terminal and its Complete ones have URLs.
SettledSnapshot ==
  /\ Processed
  /\ DOMAIN results.body # {}
  /\ \A c \in Present :
       /\ TerminalNow(c)
       /\ results.body[c].status = "Complete" => CompleteWithUrl(c)

\* C18 as stated: before attempt 10 a settled snapshot ends the loop if
\* every requested client has been named by some snapshot so far.
C18_Original ==
  (/\ SettledSnapshot
   /\ attempt < WaitFloor
   /\ requested \subseteq history.appeared) => ExitedByRule

\* C18: allRequestedAppeared looks at the snapshot of the current attempt
\* only: before attempt 10, with clients requested, the loop ends by the
\* rule exactly when the snapshot names every requested client, all of them
\* terminal and the Complete ones with a captured URL.
C18_CurrentSnapshotOnly ==
  (Processed /\ attempt < WaitFloor /\ requested # {}) =>
    (ExitedByRule <=>
       /\ requested \subseteq DOMAIN results.body
       /\ \A c \in requested :
            /\ TerminalNow(c)
            /\ results.body[c].status = "Complete" =>
                 Truthy(capturedUrls, c))

\* Before attempt 10 a settled snapshot lacks a requested client that an
\* earlier snapshot named, every requested client has been named so far,
\* and the loop goes on.
C18_Witness ==
  /\ SettledSnapshot
  /\ attempt < WaitFloor
  /\ requested # {}
  /\ requested \subseteq history.appeared
  /\ "gmail_web" \in requested \ DOMAIN results.body
  /\ pc = "wait"

\* C19: an attempt whose snapshot is empty never ends the loop by the rule,
\* at any attempt number and whatever capturedUrls holds: the loop goes on
\* to wait; a loop that has ended by the rule did so on a non-empty
\* snapshot, and a loop that returns has ended by the rule or by the
\* budget.
C19_EmptySnapshotNeverEnds ==
  /\ (Processed /\ DOMAIN results.body = {}) => pc = "wait" /\ stop = "none"
  /\ ExitedByRule => results.kind = "data" /\ DOMAIN results.body # {}
  /\ pc = "return" => stop \in {"rule", "budget"}

\* At attempt 15 the snapshot is empty, every requested client has a URL
\* captured earlier, and the loop goes on.
C19_Witness ==
  /\ Processed
  /\ DOMAIN results.body = {}
  /\ attempt = ScreenshotFloor
  /\ requested # {}
  /\ \A c \in requested : Truthy(capturedUrls, c)
  /\ pc = "wait"

\* C20: at an attempt whose snapshot is non-empty, whose present clients
\* are all terminal and which passes the appearance test (every client to
\* check is present, or the attempt is at least 10), the loop ends by the
\* rule exactly when every present Complete client has a captured URL or
\* the attempt is at least 15.
C20_ScreenshotFloor ==
  (/\ Processed
   /\ DOMAIN results.body # {}
   /\ \A c \in Present : TerminalNow(c)
   /\ Present = Checked \/ attempt >= WaitFloor) =>
    (ExitedByRule <=>
       \/ \A c \in Present :
            results.body[c].status = "Complete" => Truthy(capturedUrls, c)
       \/ attempt >= ScreenshotFloor)

\* At attempt 15 the loop has ended by the rule with a Complete client
\* that never had a URL.
C20_Witness ==
  /\ ExitedByRule
  /\ attempt = ScreenshotFloor
  /\ "gmail_web" \in Present
  /\ results.body["gmail_web"].status = "Complete"
  /\ "gmail_web" \notin DOMAIN capturedUrls

\* C21: once capturedUrls holds a URL for a client, every later step of the
\* session leaves that URL in place, whatever the later snapshots report
\* for the client, and the map returned, the preview file and the archive
\* copy of a finished run hold that URL for the client.
C21_SuccessKept ==
  /\ [][\A c \in Clients :
          Truthy(capturedUrls, c) =>
            /\ c \in DOMAIN capturedUrls'
            /\ capturedUrls'[c] = capturedUrls[c]]_vars
  /\ [](pc = "finished" =>
          \A c \in Clients :
            Truthy(capturedUrls, c) =>
              /\ c \in DOMAIN previewUrlsMap
              /\ previewUrlsMap[c] = capturedUrls[c]
              /\ {e.url : e \in EntriesFor(file.previews, c)}
                   = {capturedUrls[c]}
              /\ {e.url : e \in EntriesFor(LastArchive, c)}
                   = {capturedUrls[c]})

\* The snapshot reports another URL for a client whose URL was captured at
\* an earlier attempt, and the earlier URL is still recorded.
C21_Witness ==
  /\ Processed
  /\ "gmail_web" \in DOMAIN capturedUrls
  /\ capturedUrls["gmail_web"] = "u1"
  /\ "gmail_web" \in DOMAIN results.body
  /\ results.body["gmail_web"] = [status |-> "Complete", url |-> "u2"]

\* Some snapshot has reported the requested client c as Complete without a
\* URL and no snapshot has given it a URL or reported it Failed or Bounced:
\* a terminal report that left no outcome can only be such a one.
CompleteNeverWithUrl(c) ==
  /\ c \in requested
  /\ c \in history.terminal
  /\ c \notin DOMAIN capturedUrls

\* C22: when polling has ended, a client that was reported Complete without
\* a URL and never received one has the outcome Failed and is listed among
\* the failed clients, not among those that never appeared.
C22_TimesOutIntoFailed ==
  pc = "finished" =>
    \A c \in Clients :
      CompleteNeverWithUrl(c) =>
        /\ c \in report.failed
        /\ c \notin report.never

\* C23: one sleep separates two consecutive attempts, after a soft failure
\* as after a processed snapshot; no sleep follows the attempt at which the
\* rule fires nor attempt maxAttempts: a session that has ended after k
\* attempts, k at least 1, has slept k - 1 times (and a session without
\* any attempt has not slept).
C23_SleepDiscipline ==
  /\ [](pc = "fetch" => sleeps = attempt - 1 /\ fetchCalls = attempt - 1)
  /\ [](pc = "wait" => sleeps = attempt - 1 /\ fetchCalls = attempt)
  /\ []((stop # "none" /\ fetchCalls >= 1) => sleeps = fetchCalls - 1)
  /\ [](fetchCalls = 0 => sleeps = 0)
  /\ [][sleeps' \in {sleeps, sleeps + 1}]_vars
  /\ [][stop # "none" => sleeps' = sleeps /\ fetchCalls' = fetchCalls]_vars

\* A session that used its whole budget, with a soft failure among its
\* attempts, has slept once less than it has fetched.
C23_Witness ==
  /\ pc = "return"
  /\ stop = "budget"
  /\ fetchCalls = MaxAttempts
  /\ ruleChecks < fetchCalls
  /\ sleeps = MaxAttempts - 1

\* The snapshot of the current attempt without its unrequested clients.
RequestedPart ==
  [c \in DOMAIN results.body \cap requested |-> results.body[c]]

\* The exit rule stated over the clients to check that the snapshot names.
RuleOverPresent ==
  /\ \A c \in Present : TerminalNow(c)
  /\ Present = Checked \/ attempt >= WaitFloor
  /\ \/ \A c \in Present :
          results.body[c].status = "Complete" => Truthy(capturedUrls, c)
     \/ attempt >= ScreenshotFloor

\* C24 as stated: with clients requested, capturedUrls has requested keys
\* only, the preview list names requested clients only, and the loop ends
\* at an attempt exactly when it would end on the same snapshot without its
\* unrequested clients.
C24_Original ==
  requested # {} =>
    /\ DOMAIN capturedUrls \subseteq requested
    /\ pc = "finished" => ClientsIn(file.previews) \subseteq requested
    /\ Processed =>
         (ExitedByRule <=>
            CheckIfShouldExit(requested, RequestedPart, capturedUrls,
                              attempt))

\* C24: with clients requested, capturedUrls has requested keys only and
\* the preview list names requested clients only; on a non-empty snapshot
\* the loop ends exactly when the rule holds over the requested clients the
\* snapshot names, whatever the statuses of the unrequested ones; the
\* unrequested clients count only in making the snapshot non-empty.
C24_OnlyRequested ==
  requested # {} =>
    /\ DOMAIN capturedUrls \subseteq requested
    /\ pc = "finished" =>
         /\ DOMAIN previewUrlsMap \subseteq requested
         /\ ClientsIn(file.previews) \subseteq requested
    /\ (Processed /\ DOMAIN results.body # {}) =>
         (ExitedByRule <=> RuleOverPresent)
    /\ (Processed /\ DOMAIN results.body = {}) => ~ExitedByRule

\* Before attempt 10 the loop has ended by the rule on a snapshot that
\* reports an unrequested client as Processing.
C24_Witness ==
  /\ ExitedByRule
  /\ requested = FewClients
  /\ attempt < WaitFloor
  /\ "iphone" \in DOMAIN results.body
  /\ results.body["iphone"].status = "Processing"
  /\ "iphone" \notin DOMAIN capturedUrls

\* C25: with clients requested, a non-empty snapshot at an attempt from 10
\* on that names no requested client ends the loop at that attempt; when no
\* outcome was recorded before, the run then finishes without error, with
\* an empty map and an empty preview list, and without a further fetch.
C25_VacuousTermination ==
  /\ []((/\ Processed
         /\ requested # {}
         /\ attempt >= WaitFloor
         /\ DOMAIN results.body # {}
         /\ Present = {}) => ExitedByRule)
  /\ [][(ExitedByRule /\ capturedUrls = EmptyMap) =>
          /\ pc' = "finished"
          /\ error' = "none"
          /\ previewUrlsMap' = EmptyMap
          /\ file' = FileOf({})
          /\ fetchCalls' = fetchCalls]_vars

\* At attempt 10 of a larger budget the loop has ended on a snapshot that
\* names an unrequested client only, with nothing recorded.
C25_Witness ==
  /\ ExitedByRule
  /\ requested = FewClients
  /\ attempt = WaitFloor
  /\ maxAttempts > attempt
  /\ DOMAIN results.body = {"iphone"}
  /\ Present = {}
  /\ capturedUrls = EmptyMap

\* C26: the attempt number compared with the floors counts the attempts
\* whose fetch failed softly: it is the number of fetches made, not of
\* snapshots processed, and on a non-empty snapshot whose present clients
\* are terminal with their URLs the loop ends from attempt 10 on with
\* requested clients missing, however few snapshots were processed.
C26_SoftFailuresCount ==
  /\ Processed => attempt = fetchCalls /\ ruleChecks <= fetchCalls
  /\ (/\ Processed
      /\ DOMAIN results.body # {}
      /\ Present # Checked
      /\ \A c \in Present :
           /\ TerminalNow(c)
           /\ results.body[c].status = "Complete" =>
                Truthy(capturedUrls, c)) =>
       (ExitedByRule <=> attempt >= WaitFloor)

\* Nine soft failures, then the loop has ended at attempt 10 on its first
\* snapshot, with a requested client never named.
C26_Witness ==
  /\ ExitedByRule
  /\ attempt = WaitFloor
  /\ fetchCalls = WaitFloor
  /\ ruleChecks = 1
  /\ requested \ history.appeared # {}
  /\ Present # {}

\* C27: on every task name the sanitizer of playwright.config.ts returns
\* what the sanitizer of utils/filename.ts returns with the hyphen
\* separator, and the project name derived from a task name that is set is
\* that same key.
C27_SanitizersAgree ==
  (san.pc = "returned" /\ san.useHyphens) =>
    /\ san.config = san.once
    /\ san.name # <<>> => san.project = san.once

\* A long task name with a run of whitespace and a stripped character:
\* both sanitizers return the same key of 100 characters.
C27_Witness ==
  /\ san.pc = "returned"
  /\ san.useHyphens
  /\ Len(san.name) > NameLimit
  /\ "#" \in CharsOf(san.name)
  /\ \E i \in 1..(Len(san.name) - 1) :
       san.name[i] \in Whitespace /\ san.name[i + 1] \in Whitespace
  /\ "-" \in CharsOf(san.once)
  /\ Len(san.once) = NameLimit
  /\ san.project = san.once

\* getPreviewUrls has entered its loop.
PollingStarted ==
  pc \in {"fetch", "wait", "return", "finished"} \/ fetchCalls > 0

\* C28: injectHtml is called at most once in a run; polling starts only
\* with a non-empty test id, which on the create path is the id returned by
\* the one successful injectHtml; with an existing test id in the
\* configuration injectHtml is never called and polling uses that id,
\* trimmed.
C28_SubmitThenPoll ==
  /\ submitCalls <= 1
  /\ PollingStarted => testId # ""
  /\ (PollingStarted /\ env.existingTestId = "") =>
       /\ submitCalls = 1
       /\ submitOutcome = "created"
       /\ testId \in InjectedIds
  /\ env.existingTestId # "" => submitCalls = 0 /\ submitOutcome = "none"
  /\ (PollingStarted /\ env.existingTestId = " 77 ") => testId = "77"
  /\ env.existingTestId = " " => ~PollingStarted

\* A run polls the existing test 77 without having posted anything.
C28_Witness ==
  /\ env.existingTestId = " 77 "
  /\ ~env.htmlFile
  /\ fetchCalls > 0
  /\ testId = "77"
  /\ submitCalls = 0

\* C29: a run that aborts with a submission error or with an
\* authentication failure during polling writes neither the preview file
\* nor an archive file: the preview file keeps the list of the earlier run,
\* the archive directory its one file, and no captured URL is returned or
\* written.
C29_FatalRunWritesNothing ==
  /\ [](error \in {"submission", "auth"} =>
          /\ pc = "failed"
          /\ file = FileOf(OldPreviews)
          /\ archives = <<OldPreviews>>
          /\ previewUrlsMap = EmptyMap
          /\ tests = NoTests)
  /\ [][(error \in {"submission", "auth"}) =>
          UNCHANGED <<pc, file, archives, previewUrlsMap, tests>>]_vars

\* A run aborted by a 401 after a URL was captured; the preview file still
\* holds the list of the earlier run.
C29_Witness ==
  /\ error = "auth"
  /\ pc = "failed"
  /\ Truthy(capturedUrls, "gmail_web")
  /\ file = FileOf(OldPreviews)
  /\ archives = <<OldPreviews>>
====
